---- MODULE Spec2Model ----
(***************************************************************************)
(* Stop-loss guard of the futures bot                                      *)
(* (binance-futures-bot/app/services/stop_loss_guard.py).                  *)
(*                                                                         *)
(* Prices are integers in units of 0.001, so the percentages of the ladder *)
(* (0.1 %, 1.9 %, 1.5 %, 2 %) are exact on the prices used: entry and mark *)
(* prices are multiples of 1000 units.  Ladder percentages are kept in     *)
(* tenths of a percent (1.8 % = 18).  A price of 0 stands for None.        *)
(***************************************************************************)
EXTENDS Integers, Sequences, FiniteSets, TLC

(* ------------------------------ bounds --------------------------------- *)
MaxEnv == 3        \* environment events (open, close, price move, stray order)
MaxFail == 1       \* handler runs in which some exchange call fails
MaxArg == 320      \* largest argument of a set-check-interval call

(* ----------------------------- input sets ------------------------------ *)
Symbols == {"A", "B"}
SymbolOrder == <<"A", "B">>
Sides == {"LONG", "SHORT"}
\* the sides a position of the symbol is opened on
SidesOf(s) == IF s = "A" THEN Sides ELSE {"LONG"}
EntryPrice == 100000
PositionQty == 1000
\* mark prices a position is observed at.  On the first symbol: entry, one
\* price in each of level 1 and level 2, two prices in level 3.  The other
\* symbols are there for what the guard does across symbols: their positions
\* are long and stay at the entry price.
MarkPrices(s, side) ==
    IF s # "A" THEN {100000}
    ELSE IF side = "LONG" THEN {100000, 102000, 103000, 105000, 110000}
                          ELSE {100000, 98000, 97000, 95000, 90000}
\* the order another component leaves on the book of a symbol: a stop order
\* on the first symbol, a take-profit order on the others
StrayOrders(s) ==
    IF s = "A"
    THEN { [sym |-> s, typ |-> "STOP_MARKET", side |-> "SELL",
            price |-> 99000, qty |-> PositionQty] }
    ELSE { [sym |-> s, typ |-> "TAKE_PROFIT_MARKET", side |-> "SELL",
            price |-> 110000, qty |-> PositionQty] }

NoPrice == 0
NoPos == [side |-> "NONE", entry |-> 0, qty |-> 0, mark |-> 0]

(* --------------------------- program constants ------------------------- *)
StopTypes == {"STOP_MARKET", "STOP", "STOP_LOSS", "STOP_LOSS_LIMIT"}

\* the default ladder with a level 1 that locks nothing (breakeven)
DEFAULT_TRAILING_CONFIG_Breakeven ==
    [level_1 |-> [profit_min |-> 18, profit_max |-> 25, lock_profit |-> 0,
                  trailing_enabled |-> FALSE, trailing_percent |-> 0],
     level_2 |-> [profit_min |-> 25, profit_max |-> 40, lock_profit |-> 19,
                  trailing_enabled |-> FALSE, trailing_percent |-> 0],
     level_3 |-> [profit_min |-> 40, profit_max |-> 0, lock_profit |-> 19,
                  trailing_enabled |-> TRUE, trailing_percent |-> 15]]

DEFAULT_TRAILING_CONFIG ==
    [level_1 |-> [profit_min |-> 18, profit_max |-> 25, lock_profit |-> 1,
                  trailing_enabled |-> FALSE, trailing_percent |-> 0],
     level_2 |-> [profit_min |-> 25, profit_max |-> 40, lock_profit |-> 19,
                  trailing_enabled |-> FALSE, trailing_percent |-> 0],
     level_3 |-> [profit_min |-> 40, profit_max |-> 0, lock_profit |-> 19,
                  trailing_enabled |-> TRUE, trailing_percent |-> 15]]

initial_stop_percent == -20     \* -2.0 %, in tenths of a percent

PriceTick == 50                 \* exchange tick of the symbols: 0.05

VARIABLES
    positions,      \* exchange: symbol -> open position or NoPos
    orders,         \* exchange: the open-order book, in placement order
    config,         \* StopLossGuard._config
    highest_prices, \* StopLossGuard._highest_prices: symbol -> price, 0 = absent
    pc,             \* position of _check_loop
    cyclePositions, \* _check_loop: `positions` returned by get_position
    idx,            \* _check_loop: index of the next position_data of the for loop
    last,           \* record of the calls made by the handler that ran last
    guardStop,      \* symbol -> last stop price the guard placed for the open position
    lastTarget,     \* symbol -> last target the evaluator returned for the open position
    processed,      \* symbols whose position_data went through _process_position this cycle
    errors,         \* symbols whose _process_position logged an exception this cycle
    envSteps,       \* environment events so far
    fails,          \* handler runs with a failing call so far
    running,        \* StopLossGuard._running
    check_task,     \* StopLossGuard._check_task: "none", "active" or "done"
    check_interval, \* StopLossGuard._check_interval, in seconds
    ctl,            \* record of the control call that ran last
    bt,             \* Backtest.positions[symbol] of one symbol, or NoBt
    inv,            \* the overlapping invocations of _process_position
    sweepFailed     \* the orders whose cancel failed in the sweep that ran last

\* the state outside _check_loop and its handlers
control == <<running, check_task, check_interval, ctl>>

vars == <<positions, orders, config, highest_prices, pc, cyclePositions, idx,
          last, guardStop, lastTarget, processed, errors, envSteps, fails,
          running, check_task, check_interval, ctl, bt, inv, sweepFailed>>

\* the state beside the guard loop and its control calls
aside == <<bt, inv, sweepFailed>>

(* ------------------------------ helpers -------------------------------- *)
Max(a, b) == IF a >= b THEN a ELSE b
Min(a, b) == IF a <= b THEN a ELSE b

IsStopOrder(o) == o.typ \in StopTypes

\* indices of the book entries satisfying P, as a set
IndicesOf(book, P(_)) == { i \in 1..Len(book) : P(book[i]) }

\* the book without the entries whose index is in gone
RemoveIndices(book, gone) ==
    LET F[i \in 0..Len(book)] ==
            IF i = 0 THEN << >>
            ELSE IF i \in gone THEN F[i-1] ELSE Append(F[i-1], book[i])
    IN  F[Len(book)]

\* binance_api.get_open_orders(symbol): the symbol's orders, in book order
get_open_orders(book, s) == SelectSeq(book, LAMBDA o : o.sym = s)

\* binance_api.format_price: the price cut to the symbol's tick
format_price(p) == (p \div PriceTick) * PriceTick

\* binance_api.format_quantity: quantities used are already at step precision
format_quantity(q) == q

\* at least as protective: higher for LONG, lower for SHORT
AsProtective(side, a, b) == IF side = "LONG" THEN a >= b ELSE a <= b

(* ----------------------------- evaluator ------------------------------- *)
\* _calculate_profit_percent, times entry_price * 10 (compared against
\* ladder bounds in tenths of a percent times entry_price)
calculate_profit_percent(entry_price, current_price, side) ==
    IF side = "LONG" THEN (current_price - entry_price) * 1000
                     ELSE (entry_price - current_price) * 1000

\* lo <= profit_percent <= (hi or inf): the upper edge taken into the level
InLevelRange_Closed(lo, hi, entry_price, profit) ==
    /\ lo * entry_price <= profit
    /\ (hi = 0 \/ profit <= hi * entry_price)

\* lo <= profit_percent < (hi or inf)
InLevelRange(lo, hi, entry_price, profit) ==
    /\ lo * entry_price <= profit
    /\ (hi = 0 \/ profit < hi * entry_price)

\* entry_price * (1 + pct/100) for LONG, entry_price * (1 - pct/100) for SHORT
LockPrice(side, entry_price, pct) ==
    IF side = "LONG" THEN (entry_price * (1000 + pct)) \div 1000
                     ELSE (entry_price * (1000 - pct)) \div 1000

\* _calculate_initial_stop_loss_price with the sign of the percentage turned:
\* the stop lies on the profit side of the entry
calculate_initial_stop_loss_price_ProfitSide(side, entry_price) ==
    IF side = "LONG" THEN (entry_price * (1000 - initial_stop_percent)) \div 1000
                     ELSE (entry_price * (1000 + initial_stop_percent)) \div 1000

\* _calculate_initial_stop_loss_price
calculate_initial_stop_loss_price(side, entry_price) ==
    IF side = "LONG" THEN (entry_price * (1000 + initial_stop_percent)) \div 1000
                     ELSE (entry_price * (1000 - initial_stop_percent)) \div 1000

\* the update of _highest_prices[symbol] without the comparison: the current
\* price is stored whatever the excursion was
UpdatedHighest_Overwrite(hp, side, current_price) == current_price

\* the update of _highest_prices[symbol] at the head of _calculate_stop_loss_price
UpdatedHighest(hp, side, current_price) ==
    IF side = "LONG"
    THEN IF hp = NoPrice \/ current_price > hp THEN current_price ELSE hp
    ELSE IF hp = NoPrice \/ current_price < hp THEN current_price ELSE hp

\* level 3 with trailing enabled, without base_stop: the trailing stop alone
TrailingStop_TrailingOnly(cfg, side, entry_price, highest, current_stop_price) ==
    LET l3 == cfg.level_3
        calculated_stop ==
            IF side = "LONG" THEN (highest * (1000 - l3.trailing_percent)) \div 1000
                             ELSE (highest * (1000 + l3.trailing_percent)) \div 1000
    IN  IF side = "LONG"
        THEN IF current_stop_price = NoPrice \/ calculated_stop > current_stop_price
             THEN calculated_stop ELSE NoPrice
        ELSE IF current_stop_price = NoPrice \/ calculated_stop < current_stop_price
             THEN calculated_stop ELSE NoPrice

\* level 3 of _calculate_stop_loss_price with trailing enabled
TrailingStop(cfg, side, entry_price, highest, current_stop_price) ==
    LET l3 == cfg.level_3
        trailing_stop ==
            IF side = "LONG" THEN (highest * (1000 - l3.trailing_percent)) \div 1000
                             ELSE (highest * (1000 + l3.trailing_percent)) \div 1000
        base_stop == LockPrice(side, entry_price, l3.lock_profit)
        calculated_stop == IF side = "LONG" THEN Max(trailing_stop, base_stop)
                                            ELSE Min(trailing_stop, base_stop)
    IN  IF side = "LONG"
        THEN IF current_stop_price = NoPrice \/ calculated_stop > current_stop_price
             THEN calculated_stop ELSE NoPrice
        ELSE IF current_stop_price = NoPrice \/ calculated_stop < current_stop_price
             THEN calculated_stop ELSE NoPrice

\* _calculate_stop_loss_price: the new stop price (NoPrice for None), given
\* the already updated _highest_prices[symbol]
calculate_stop_loss_price(cfg, highest, side, entry_price, current_price, current_stop_price) ==
    LET profit == calculate_profit_percent(entry_price, current_price, side)
        l1 == cfg.level_1
        l2 == cfg.level_2
        l3 == cfg.level_3
    IN  IF InLevelRange(l1.profit_min, l1.profit_max, entry_price, profit)
        THEN IF l1.lock_profit = 0 THEN entry_price
             ELSE LockPrice(side, entry_price, l1.lock_profit)
        ELSE IF InLevelRange(l2.profit_min, l2.profit_max, entry_price, profit)
        THEN LockPrice(side, entry_price, l2.lock_profit)
        ELSE IF l3.profit_min * entry_price <= profit
        THEN IF l3.trailing_enabled
             THEN TrailingStop(cfg, side, entry_price, highest, current_stop_price)
             ELSE LockPrice(side, entry_price, l3.lock_profit)
        ELSE NoPrice

(* ------------------------------ handlers ------------------------------- *)
\* Exchange calls a handler makes; a failure choice f names the calls that
\* raise (f.calls) and the book entries whose cancel raises (f.cancels).
CallNames == {"parse", "fetch1", "precision1", "precision2", "fetch2", "place", "notify"}
NoFailure == [calls |-> {}, cancels |-> {}]
\* sets of calls that can fail in one run: a call that raises to the handler's
\* except clause ends the run, so no later call is made
RaisingTogether ==
    { S \in SUBSET CallNames :
        /\ "parse" \in S => S = {"parse"}
        /\ "precision1" \in S => S \cap {"precision2", "fetch2", "place", "notify"} = {}
        /\ "precision2" \in S => S \cap {"fetch2", "place", "notify"} = {}
        /\ "place" \in S => "notify" \notin S }

\* the failure choices over the calls in cs and the cancels of the entries in ix
FailureChoices(cs, ix) ==
    [calls : { S \in RaisingTogether : S \subseteq cs }, cancels : SUBSET ix]

\* send_message without its except clauses: a failed send raises
send_message_raises_Uncaught(failed) == failed

\* telegram_service.send_message: a send that fails is retried as plain text
\* and, failing again, answered False; nothing is raised
send_message_raises(failed) == FALSE

\* stop_side with the side of a LONG position for both sides
stop_side_AlwaysSell(side) == "SELL"

\* the side of the stop order of _adjust_stop_loss: the side that closes the
\* position
stop_side(side) == IF side = "LONG" THEN "SELL" ELSE "BUY"

\* _adjust_stop_loss: cancel every open order of the symbol, place the new
\* stop order, then notify ("notify" in f.calls: the sends of the notification
\* fail).  raised: the exception the except clause re-raises.
adjust_stop_loss(book, symbol, side, quantity, stop_price, f) ==
    IF "precision2" \in f.calls
    THEN [book |-> book, calls |-> {"precision2"}, cancelTried |-> {},
          placeTried |-> FALSE, placed |-> NoPrice, raised |-> TRUE]
    ELSE
    LET formatted_price == format_price(stop_price)
        formatted_qty == format_quantity(quantity)
        tried == IF "fetch2" \in f.calls THEN {}
                 ELSE IndicesOf(book, LAMBDA o : o.sym = symbol)
        afterCancel == RemoveIndices(book, tried \ f.cancels)
        stop_order == [sym |-> symbol, typ |-> "STOP_MARKET", side |-> stop_side(side),
                       price |-> formatted_price, qty |-> formatted_qty]
        placeOK == "place" \notin f.calls
        notifyFailed == placeOK /\ "notify" \in f.calls
    IN  [book |-> IF placeOK THEN Append(afterCancel, stop_order) ELSE afterCancel,
         calls |-> {"precision2", "fetch2", "place"} \cup
                   (IF placeOK THEN {"notify"} ELSE {}),
         cancelTried |-> tried,
         placeTried |-> TRUE,
         placed |-> IF placeOK THEN formatted_price ELSE NoPrice,
         raised |-> ~placeOK \/ send_message_raises(notifyFailed)]

\* a pass of _process_position that issues no exchange command
NoCommand(book, calls, raised) ==
    [book |-> book, calls |-> calls, cancelTried |-> {},
     placeTried |-> FALSE, placed |-> NoPrice, raised |-> raised]

\* the branch of _process_position taken when a stop order was found
AdjustExisting(book, pd, new_stop_price, current_stop_price, f) ==
    IF new_stop_price = NoPrice
    THEN NoCommand(book, {}, FALSE)
    ELSE IF "precision1" \in f.calls
    THEN NoCommand(book, {"precision1"}, TRUE)
    ELSE IF format_price(current_stop_price) = format_price(new_stop_price)
    THEN NoCommand(book, {"precision1"}, FALSE)
    ELSE IF pd.side = "LONG" /\ new_stop_price <= current_stop_price
    THEN NoCommand(book, {"precision1"}, FALSE)
    ELSE IF pd.side # "LONG" /\ new_stop_price >= current_stop_price
    THEN NoCommand(book, {"precision1"}, FALSE)
    ELSE LET a == adjust_stop_loss(book, pd.symbol, pd.side, pd.quantity, new_stop_price, f)
         IN  [a EXCEPT !.calls = a.calls \cup {"precision1"}]

\* CreateInitial without the initial stop: nothing is placed when the
\* evaluator returns None
CreateInitial_LadderOnly(book, pd, new_stop_price, f) ==
    IF new_stop_price = NoPrice THEN NoCommand(book, {}, FALSE)
    ELSE adjust_stop_loss(book, pd.symbol, pd.side, pd.quantity, new_stop_price, f)

\* CreateInitial without the ladder: the initial stop is placed whatever the
\* evaluator returns
CreateInitial_InitialOnly(book, pd, new_stop_price, f) ==
    adjust_stop_loss(book, pd.symbol, pd.side, pd.quantity,
                     calculate_initial_stop_loss_price(pd.side, pd.entry_price), f)

\* the branch of _process_position taken when no stop order was found
CreateInitial(book, pd, new_stop_price, f) ==
    adjust_stop_loss(book, pd.symbol, pd.side, pd.quantity,
                     IF new_stop_price = NoPrice
                     THEN calculate_initial_stop_loss_price(pd.side, pd.entry_price)
                     ELSE new_stop_price,
                     f)

\* the stop price _process_position places for pd when it finds no stop order
FreshStop(cfg, highest, pd) ==
    LET t == calculate_stop_loss_price(cfg, highest, pd.side, pd.entry_price,
                                       pd.mark_price, NoPrice)
    IN  IF t = NoPrice THEN calculate_initial_stop_loss_price(pd.side, pd.entry_price)
        ELSE t

\* _process_position on position_data pd with failure choice f: the book and
\* the excursion it leaves, and what it did
process_position(book, cfg, hp, pd, f) ==
    IF "parse" \in f.calls
    THEN [out |-> NoCommand(book, {"parse"}, TRUE), highest |-> hp, evaluated |-> FALSE,
          nStops |-> 0, cur |-> NoPrice, target |-> NoPrice, fresh |-> NoPrice]
    ELSE
    LET symbol == pd.symbol
        open_orders == get_open_orders(book, symbol)
        stop_orders == IF "fetch1" \in f.calls THEN << >>
                       ELSE SelectSeq(open_orders, IsStopOrder)
        existing_stop_orders_count == Len(stop_orders)
        current_stop_price == IF existing_stop_orders_count > 0
                              THEN stop_orders[1].price ELSE NoPrice
        highest == UpdatedHighest(hp, pd.side, pd.mark_price)
        new_stop_price == calculate_stop_loss_price(cfg, highest, pd.side, pd.entry_price,
                                                    pd.mark_price, current_stop_price)
        o == IF existing_stop_orders_count > 0 /\ current_stop_price # NoPrice
             THEN AdjustExisting(book, pd, new_stop_price, current_stop_price, f)
             ELSE CreateInitial(book, pd, new_stop_price, f)
    IN  [out |-> [o EXCEPT !.calls = o.calls \cup {"parse", "fetch1"}],
         highest |-> highest, evaluated |-> TRUE,
         nStops |-> existing_stop_orders_count,
         cur |-> current_stop_price, target |-> new_stop_price,
         fresh |-> FreshStop(cfg, highest, pd)]

\* _process_position without its except clause
ProcessPositionPropagates_Uncaught(raised) == raised

\* the except clause of _process_position catches every exception of the
\* pass: nothing reaches _check_loop
ProcessPositionPropagates(raised) == FALSE

\* _cleanup_orphan_orders without the try around each cancel: a cancel that
\* raises ends the sweep
cleanup_orphan_orders_AbortOnFailure(book, position_symbols, f) ==
    LET orphans == IF "fetch1" \in f.calls THEN {}
                   ELSE IndicesOf(book, LAMBDA o : IsStopOrder(o) /\ o.sym \notin position_symbols)
        tried == { i \in orphans : \A j \in orphans \cap f.cancels : i <= j }
    IN  [book |-> RemoveIndices(book, tried \ f.cancels),
         calls |-> {"fetch1"}, cancelTried |-> tried,
         placeTried |-> FALSE, placed |-> NoPrice, raised |-> FALSE]

\* _cleanup_orphan_orders without the test of position_symbols
cleanup_orphan_orders_AllStops(book, position_symbols, f) ==
    LET tried == IF "fetch1" \in f.calls THEN {}
                 ELSE IndicesOf(book, IsStopOrder)
    IN  [book |-> RemoveIndices(book, tried \ f.cancels),
         calls |-> {"fetch1"}, cancelTried |-> tried,
         placeTried |-> FALSE, placed |-> NoPrice, raised |-> FALSE]

\* _cleanup_orphan_orders: cancel the stop orders whose symbol is not in
\* position_symbols; f.calls = {"fetch1"} when get_open_orders() raises
cleanup_orphan_orders(book, position_symbols, f) ==
    LET tried == IF "fetch1" \in f.calls THEN {}
                 ELSE IndicesOf(book, LAMBDA o : IsStopOrder(o) /\ o.sym \notin position_symbols)
    IN  [book |-> RemoveIndices(book, tried \ f.cancels),
         calls |-> {"fetch1"}, cancelTried |-> tried,
         placeTried |-> FALSE, placed |-> NoPrice, raised |-> FALSE]

\* the sweep of the no-position branch with the try around the loop only: a
\* cancel that raises ends the loop
nopos_cleanup_StopsAtFailure(book, f) ==
    LET stops == IF "fetch1" \in f.calls THEN {} ELSE IndicesOf(book, IsStopOrder)
        tried == { i \in stops : \A j \in stops \cap f.cancels : i <= j }
    IN  [book |-> RemoveIndices(book, tried \ f.cancels),
         calls |-> {"fetch1"}, cancelTried |-> tried,
         placeTried |-> FALSE, placed |-> NoPrice, raised |-> FALSE]

\* the no-position branch of _check_loop: cancel every stop order of the
\* book, each cancel in its own try; nothing is cancelled when
\* get_open_orders() raises
nopos_cleanup(book, f) ==
    LET tried == IF "fetch1" \in f.calls THEN {} ELSE IndicesOf(book, IsStopOrder)
    IN  [book |-> RemoveIndices(book, tried \ f.cancels),
         calls |-> {"fetch1"}, cancelTried |-> tried,
         placeTried |-> FALSE, placed |-> NoPrice, raised |-> FALSE]

\* self._highest_prices.clear()
cleared_highest_prices == [s \in Symbols |-> NoPrice]

\* _check_loop that processes the positions first and sweeps afterwards
after_get_position_SweepLast(ps) == IF Len(ps) > 0 THEN "process" ELSE "nopos"

\* _check_loop, `if positions:`: the sweep comes first when there are
\* positions, the no-position branch is taken otherwise
after_get_position(ps) == IF Len(ps) > 0 THEN "sweep" ELSE "nopos"

\* _check_loop without its except clause: an exception raised in a cycle
\* ends the loop task
after_cycle_error_Dies == "off"

\* the except clause of _check_loop: the error is logged, the loop sleeps one
\* interval and tests `while self._running` again
after_cycle_error == "sleep"

(* ---------------------------- state machine ---------------------------- *)
Idle == [op |-> "none", sym |-> "", side |-> "NONE", mark |-> 0,
         calls |-> {}, failed |-> {}, cancelTried |-> {}, cancelFailed |-> {},
         placeTried |-> FALSE, placed |-> NoPrice, raised |-> FALSE,
         before |-> << >>, evaluated |-> FALSE, nStops |-> 0, cur |-> NoPrice,
         target |-> NoPrice, fresh |-> NoPrice,
         prevGuard |-> NoPrice, prevTarget |-> NoPrice,
         prevHighest |-> NoPrice, prevFailed |-> {}]

\* what a handler run leaves in `last`
Ran(op, sym, o, f, book) ==
    [Idle EXCEPT !.op = op, !.sym = sym, !.calls = o.calls, !.failed = f.calls,
                 !.cancelTried = o.cancelTried,
                 !.cancelFailed = o.cancelTried \cap f.cancels,
                 !.placeTried = o.placeTried, !.placed = o.placed,
                 !.raised = o.raised, !.before = book]

\* a failure choice the handler run can meet: only calls it makes can fail
Feasible(f, o) ==
    /\ f.calls \subseteq o.calls
    /\ f.cancels \subseteq o.cancelTried
    /\ f # NoFailure => fails < MaxFail

\* the failure choices left to a handler run by the failures so far
Failures(cs, ix) == IF fails < MaxFail THEN FailureChoices(cs, ix) ELSE {NoFailure}

Charge(f) == IF f = NoFailure THEN fails ELSE fails + 1

\* a position as the exchange reports it right after it was opened
Opened(side) == [side |-> side, entry |-> EntryPrice, qty |-> PositionQty, mark |-> EntryPrice]

\* no backtest position, no overlapping invocation
NoBt == [open |-> FALSE, side |-> "NONE", entry_price |-> 0, quantity |-> 0,
         stop_loss_price |-> 0, stop_level |-> 0, is_partial_closed |-> FALSE,
         trailing |-> FALSE, extreme |-> 0,
         observed |-> 0, reached |-> 0, closed_by |-> "none"]
NoInv == [calls |-> << >>, best |-> NoPrice]

\* no control call yet
NoCall == [op |-> "none", load |-> "none", arg |-> 0, status |-> 0,
           was |-> FALSE, raised |-> FALSE, results |-> {}]

\* StopLossGuard.__init__ and start(), against an exchange with no position
\* and no order
Init ==
    /\ positions = [s \in Symbols |-> NoPos]
    /\ orders = << >>
    /\ config = DEFAULT_TRAILING_CONFIG
    /\ highest_prices = [s \in Symbols |-> NoPrice]
    /\ pc = "fetch"
    /\ cyclePositions = << >>
    /\ idx = 1
    /\ last = Idle
    /\ guardStop = [s \in Symbols |-> NoPrice]
    /\ lastTarget = [s \in Symbols |-> NoPrice]
    /\ processed = {}
    /\ errors = {}
    /\ envSteps = 0
    /\ fails = 0
    /\ running = TRUE
    /\ check_task = "active"
    /\ check_interval = 30
    /\ ctl = NoCall
    /\ bt = NoBt
    /\ inv = NoInv
    /\ sweepFailed = {}

\* binance_api.get_position(): the position_data of the open positions
PositionData(s) ==
    [symbol |-> s, side |-> positions[s].side, entry_price |-> positions[s].entry,
     quantity |-> positions[s].qty, mark_price |-> positions[s].mark]

get_position ==
    LET open == SelectSeq(SymbolOrder, LAMBDA s : positions[s] # NoPos)
    IN  [i \in 1..Len(open) |-> PositionData(open[i])]

PositionSymbols(ps) == { ps[i].symbol : i \in 1..Len(ps) }

\* _check_loop: positions = await binance_api.get_position()
GetPosition ==
    /\ pc = "fetch"
    /\ \E ok \in BOOLEAN :
        /\ ~ok => fails < MaxFail
        /\ fails' = IF ok THEN fails ELSE fails + 1
        /\ cyclePositions' = IF ok THEN get_position ELSE << >>
        /\ pc' = IF ~ok THEN after_cycle_error
                 ELSE after_get_position(get_position)
        /\ last' = [Idle EXCEPT !.op = "get_position", !.raised = ~ok]
    /\ idx' = 1
    /\ processed' = {}
    /\ errors' = {}
    /\ UNCHANGED <<positions, orders, config, highest_prices, guardStop, lastTarget, envSteps>>
    /\ UNCHANGED <<control, aside>>

\* _check_loop: await self._cleanup_orphan_orders(positions)
CleanupOrphanOrders ==
    /\ pc = "sweep"
    /\ \E f \in Failures({"fetch1"}, IndicesOf(orders, IsStopOrder)) :
        LET o == cleanup_orphan_orders(orders, PositionSymbols(cyclePositions), f)
        IN  /\ Feasible(f, o)
            /\ orders' = o.book
            /\ last' = [Ran("sweep", "", o, f, orders) EXCEPT !.prevFailed = sweepFailed]
            /\ sweepFailed' = { orders[i] : i \in o.cancelTried \cap f.cancels }
            /\ fails' = Charge(f)
    /\ pc' = "process"
    /\ UNCHANGED <<positions, config, highest_prices, cyclePositions, idx,
                   guardStop, lastTarget, processed, errors, envSteps>>
    /\ UNCHANGED <<control, bt, inv>>

\* _check_loop: one iteration of `for position_data in positions`
ProcessPosition ==
    /\ pc = "process"
    /\ idx <= Len(cyclePositions)
    /\ LET pd == cyclePositions[idx]
           s == pd.symbol
       IN  \E f \in Failures(CallNames, IndicesOf(orders, LAMBDA x : x.sym = s)) :
            LET r == process_position(orders, config, highest_prices[s], pd, f)
                o == r.out
            IN  /\ Feasible(f, o)
                /\ orders' = o.book
                /\ highest_prices' = [highest_prices EXCEPT ![s] = r.highest]
                /\ last' = [Ran("process", s, o, f, orders) EXCEPT
                               !.side = pd.side, !.mark = pd.mark_price,
                               !.evaluated = r.evaluated, !.nStops = r.nStops,
                               !.cur = r.cur, !.target = r.target, !.fresh = r.fresh,
                               !.prevGuard = guardStop[s],
                               !.prevTarget = lastTarget[s],
                               !.prevHighest = highest_prices[s]]
                /\ guardStop' = IF o.placed # NoPrice
                                THEN [guardStop EXCEPT ![s] = o.placed] ELSE guardStop
                /\ lastTarget' = IF r.target # NoPrice
                                 THEN [lastTarget EXCEPT ![s] = r.target] ELSE lastTarget
                /\ fails' = Charge(f)
                /\ processed' = processed \cup {s}
                /\ errors' = IF o.raised THEN errors \cup {s} ELSE errors
                /\ IF ProcessPositionPropagates(o.raised)
                   THEN pc' = "sleep" /\ idx' = idx
                   ELSE /\ idx' = idx + 1
                        /\ pc' = IF idx = Len(cyclePositions) THEN "sleep" ELSE "process"
    /\ UNCHANGED <<positions, config, cyclePositions, envSteps>>
    /\ UNCHANGED <<control, aside>>

\* _check_loop: the branch taken when get_position returned no position
NoPositions ==
    /\ pc = "nopos"
    /\ \E f \in Failures({"fetch1"}, IndicesOf(orders, IsStopOrder)) :
        LET o == nopos_cleanup(orders, f)
        IN  /\ Feasible(f, o)
            /\ orders' = o.book
            /\ last' = [Ran("nopos", "", o, f, orders) EXCEPT !.prevFailed = sweepFailed]
            /\ sweepFailed' = { orders[i] : i \in o.cancelTried \cap f.cancels }
            /\ fails' = Charge(f)
    /\ highest_prices' = cleared_highest_prices
    /\ pc' = "sleep"
    /\ UNCHANGED <<positions, config, cyclePositions, idx, guardStop, lastTarget,
                   processed, errors, envSteps>>
    /\ UNCHANGED <<control, bt, inv>>

\* _check_loop: await asyncio.sleep(self._check_interval), then the test of
\* `while self._running`: the loop task ends when the flag is down
Sleep ==
    /\ pc = "sleep"
    /\ pc' = IF running THEN "fetch" ELSE "off"
    /\ check_task' = IF running THEN check_task ELSE "done"
    /\ last' = Idle
    /\ cyclePositions' = << >>
    /\ idx' = 1
    /\ processed' = {}
    /\ errors' = {}
    /\ UNCHANGED <<positions, orders, config, highest_prices,
                   guardStop, lastTarget, envSteps, fails>>
    /\ UNCHANGED <<running, check_interval, ctl, aside>>

(* ----------------------------- environment ----------------------------- *)
\* The exchange changes while the loop sleeps: a cycle lasts about a second
\* per position, the sleep between cycles 10 to 300 seconds.
EnvStep ==
    /\ envSteps < MaxEnv
    /\ pc \in {"fetch", "off"}
    /\ envSteps' = envSteps + 1
    /\ last' = Idle
    /\ UNCHANGED <<config, highest_prices, pc, cyclePositions, idx, processed,
                   errors, fails>>
    /\ UNCHANGED <<control, aside>>

\* a position is opened on the exchange
OpenPosition ==
    /\ EnvStep
    /\ \E s \in Symbols : \E side \in SidesOf(s) :
        /\ positions[s] = NoPos
        /\ positions' = [positions EXCEPT ![s] = Opened(side)]
        /\ guardStop' = [guardStop EXCEPT ![s] = NoPrice]
        /\ lastTarget' = [lastTarget EXCEPT ![s] = NoPrice]
    /\ UNCHANGED orders

\* a position is closed on the exchange; its orders stay on the book
ClosePosition ==
    /\ EnvStep
    /\ \E s \in Symbols :
        /\ positions[s] # NoPos
        /\ positions' = [positions EXCEPT ![s] = NoPos]
        /\ guardStop' = [guardStop EXCEPT ![s] = NoPrice]
        /\ lastTarget' = [lastTarget EXCEPT ![s] = NoPrice]
    /\ UNCHANGED orders

\* the mark price of an open position moves
MarkPriceMove ==
    /\ EnvStep
    /\ \E s \in Symbols :
        /\ positions[s] # NoPos
        /\ \E p \in MarkPrices(s, positions[s].side) \ {positions[s].mark} :
            positions' = [positions EXCEPT ![s].mark = p]
    /\ UNCHANGED <<orders, guardStop, lastTarget>>

\* another component leaves an order on the book
StrayOrder ==
    /\ EnvStep
    /\ \E s \in Symbols : \E o \in StrayOrders(s) : orders' = Append(orders, o)
    /\ UNCHANGED <<positions, guardStop, lastTarget>>

Next ==
    \/ GetPosition
    \/ CleanupOrphanOrders
    \/ ProcessPosition
    \/ NoPositions
    \/ Sleep
    \/ OpenPosition
    \/ ClosePosition
    \/ MarkPriceMove
    \/ StrayOrder

Spec == Init /\ [][Next]_vars

\* the scheduling of _check_loop: the loop task keeps running
GuardStep == GetPosition \/ CleanupOrphanOrders \/ ProcessPosition \/ NoPositions \/ Sleep

\* recovery is studied on a guard started against an exchange that holds a
\* position already, at any of its mark prices, with one environment event
\* to come
LiveInit ==
    /\ \E side \in Sides : \E p \in MarkPrices("A", side) :
          positions = [s \in Symbols |->
                          IF s = "A" THEN [Opened(side) EXCEPT !.mark = p] ELSE NoPos]
    /\ orders = << >>
    /\ config = DEFAULT_TRAILING_CONFIG
    /\ highest_prices = [s \in Symbols |-> NoPrice]
    /\ pc = "fetch"
    /\ cyclePositions = << >>
    /\ idx = 1
    /\ last = Idle
    /\ guardStop = [s \in Symbols |-> NoPrice]
    /\ lastTarget = [s \in Symbols |-> NoPrice]
    /\ processed = {}
    /\ errors = {}
    /\ envSteps = MaxEnv - 1
    /\ fails = 0
    /\ running = TRUE
    /\ check_task = "active"
    /\ check_interval = 30
    /\ ctl = NoCall
    /\ bt = NoBt
    /\ inv = NoInv
    /\ sweepFailed = {}

LiveSpec == LiveInit /\ [][Next]_vars /\ WF_vars(GuardStep)

(* ------------------------------ lifecycle ------------------------------ *)
\* a ladder an operator stored under TRAILING_STOP_CONFIG: the default one
\* with level 1 locking 0.5 %
StoredConfig == [DEFAULT_TRAILING_CONFIG EXCEPT !.level_1.lock_profit = 5]

\* what the query of load_config meets: a stored ladder, no row (or an empty
\* value), a value json.loads rejects, or an exception of session.execute
LoadOutcomes == {"stored", "missing", "unparsable", "raises"}

\* load_config without its outer except clause: an exception of the query
\* reaches start()
load_config_Propagates(outcome) ==
    [config |-> IF outcome = "stored" THEN StoredConfig ELSE DEFAULT_TRAILING_CONFIG,
     raised |-> outcome = "raises"]

\* load_config: the ladder it leaves in _config, and whether it raises
load_config(outcome) ==
    [config |-> IF outcome = "stored" THEN StoredConfig ELSE DEFAULT_TRAILING_CONFIG,
     raised |-> FALSE]

\* stop() that only lowers _running: the task is neither cancelled nor awaited
task_after_stop_FlagOnly(task) == task

\* the state of _check_task after stop(): an active task is cancelled and
\* awaited
task_after_stop(task) == IF task = "active" THEN "cancelled" ELSE task

\* awaits of a pass at which the CancelledError of task.cancel() can be
\* delivered: the first fetch, the fetch of _adjust_stop_loss, a cancel, the place
InterruptPoints == {"fetch1", "fetch2", "cancel", "place"}

\* _process_position ended by CancelledError at the await `at`: the calls
\* before it were made, none after it.  r: the pass as it runs when left
\* alone; k: the book entry whose cancel was awaited; sent: the place reached
\* the exchange before the task ended.
interrupted_position(r, book, hp, at, k, sent) ==
    LET o == r.out
        tried == IF at = "cancel" THEN { i \in o.cancelTried : i <= k }
                 ELSE IF at = "place" THEN o.cancelTried ELSE {}
        applied == at = "place" /\ sent
    IN  [out |-> [book |-> IF applied THEN o.book ELSE RemoveIndices(book, tried),
                  calls |-> IF at = "fetch1" THEN {"parse", "fetch1"} ELSE o.calls,
                  cancelTried |-> tried,
                  placeTried |-> at = "place",
                  placed |-> IF applied THEN o.placed ELSE NoPrice,
                  raised |-> TRUE],
         reached |-> \/ at = "fetch1"
                     \/ at \in {"fetch2", "place"} /\ o.placeTried
                     \/ at = "cancel" /\ k \in o.cancelTried,
         highest |-> IF at = "fetch1" THEN hp ELSE r.highest,
         nStops |-> IF at = "fetch1" THEN 0 ELSE r.nStops,
         cur |-> IF at = "fetch1" THEN NoPrice ELSE r.cur,
         target |-> IF at = "fetch1" THEN NoPrice ELSE r.target]

\* _cleanup_orphan_orders (or the sweep of the no-position branch) ended by
\* CancelledError: the cancels up to book entry k were made
interrupted_cleanup(book, position_symbols, k) ==
    LET o == cleanup_orphan_orders(book, position_symbols, NoFailure)
        tried == { i \in o.cancelTried : i <= k }
    IN  [book |-> RemoveIndices(book, tried), calls |-> {"fetch1"},
         cancelTried |-> tried, placeTried |-> FALSE, placed |-> NoPrice,
         raised |-> TRUE]

\* start()
Start ==
    \E outcome \in LoadOutcomes :
        LET l == load_config(outcome)
        IN  IF running
            THEN /\ outcome = "stored"
                 /\ ctl' = [NoCall EXCEPT !.op = "start", !.was = TRUE]
                 /\ UNCHANGED <<positions, orders, config, highest_prices, pc,
                                cyclePositions, idx, last, guardStop, lastTarget,
                                processed, errors, envSteps, fails,
                                running, check_task, check_interval, aside>>
            ELSE /\ ctl' = [NoCall EXCEPT !.op = "start", !.load = outcome,
                                          !.raised = l.raised]
                 /\ IF l.raised
                    THEN UNCHANGED <<config, running, check_task, pc>>
                    ELSE /\ config' = l.config
                         /\ running' = TRUE
                         /\ check_task' = "active"
                         /\ pc' = "fetch"
                 /\ cyclePositions' = << >>
                 /\ idx' = 1
                 /\ processed' = {}
                 /\ errors' = {}
                 /\ last' = Idle
                 /\ UNCHANGED <<positions, orders, highest_prices, guardStop,
                                lastTarget, envSteps, fails, check_interval, aside>>

\* the handler the loop task is in when stop() cancels it, cut short
Interrupted ==
    IF pc \in {"sweep", "nopos"}
    THEN \E k \in 0..Len(orders) :
            LET o == interrupted_cleanup(orders,
                        IF pc = "sweep" THEN PositionSymbols(cyclePositions) ELSE {}, k)
            IN  /\ orders' = o.book
                /\ last' = Ran("interrupted", "", o, NoFailure, orders)
                /\ highest_prices' = IF pc = "nopos" THEN [s \in Symbols |-> NoPrice]
                                     ELSE highest_prices
                /\ UNCHANGED <<guardStop, lastTarget>>
    ELSE IF pc = "process" /\ idx <= Len(cyclePositions)
    THEN LET pd == cyclePositions[idx]
             s == pd.symbol
         IN  \E at \in InterruptPoints : \E k \in 0..Len(orders) : \E sent \in BOOLEAN :
             \E whole \in {process_position(orders, config, highest_prices[s], pd, NoFailure)} :
             \E r \in {interrupted_position(whole, orders, highest_prices[s], at, k, sent)} :
                LET o == r.out
                IN  /\ r.reached
                    /\ at # "cancel" => k = 0
                    /\ at # "place" => sent
                    /\ orders' = o.book
                    /\ highest_prices' = [highest_prices EXCEPT ![s] = r.highest]
                    /\ last' = [Ran("interrupted", s, o, NoFailure, orders) EXCEPT
                                   !.side = pd.side, !.mark = pd.mark_price,
                                   !.nStops = r.nStops, !.cur = r.cur, !.target = r.target,
                                   !.prevGuard = guardStop[s],
                                   !.prevTarget = lastTarget[s]]
                    /\ guardStop' = IF o.placed # NoPrice
                                    THEN [guardStop EXCEPT ![s] = o.placed] ELSE guardStop
                    /\ lastTarget' = IF r.target # NoPrice
                                     THEN [lastTarget EXCEPT ![s] = r.target] ELSE lastTarget
    ELSE /\ last' = Idle
         /\ UNCHANGED <<orders, highest_prices, guardStop, lastTarget>>

\* stop()
Stop ==
    /\ running' = FALSE
    /\ ctl' = [NoCall EXCEPT !.op = "stop", !.was = running]
    /\ IF task_after_stop(check_task) = "cancelled"
       THEN /\ Interrupted
            /\ check_task' = "done"
            /\ pc' = "off"
            /\ cyclePositions' = << >>
            /\ idx' = 1
            /\ processed' = {}
            /\ errors' = {}
       ELSE UNCHANGED <<orders, highest_prices, guardStop, lastTarget, last, check_task,
                        pc, cyclePositions, idx, processed, errors>>
    /\ UNCHANGED <<positions, config, envSteps, fails, check_interval, aside>>

\* the methods class StopLossGuard defines
GuardMethods ==
    {"__init__", "load_config", "_parse_position_data", "_calculate_profit_percent",
     "_calculate_initial_stop_loss_price", "_calculate_stop_loss_price",
     "_adjust_stop_loss", "_process_position", "_cleanup_orphan_orders",
     "_check_loop", "start", "stop", "set_check_interval"}

\* GET /stop-loss-guard/check: await stop_loss_guard.check_all_positions().
\* The attribute lookup raises AttributeError, the except clause of the route
\* answers 500; no handler of the guard runs.
CheckStopLossOrders ==
    /\ "check_all_positions" \notin GuardMethods
    /\ ctl' = [NoCall EXCEPT !.op = "check", !.status = 500, !.raised = TRUE]
    /\ UNCHANGED <<positions, orders, config, highest_prices, pc, cyclePositions, idx,
                   last, guardStop, lastTarget, processed, errors, envSteps, fails,
                   running, check_task, check_interval, aside>>

\* StopLossGuard.__init__: the guard is stopped.  The exchange holds a long
\* position on the first symbol, at any of its mark prices, with or without
\* a stop order left by another component.
LifeInit ==
    /\ \E p \in MarkPrices("A", "LONG") :
          positions = [s \in Symbols |->
                          IF s = "A" THEN [Opened("LONG") EXCEPT !.mark = p] ELSE NoPos]
    /\ \E book \in {<< >>} \cup { <<o>> : o \in StrayOrders("A") } : orders = book
    /\ config = DEFAULT_TRAILING_CONFIG
    /\ highest_prices = [s \in Symbols |-> NoPrice]
    /\ pc = "off"
    /\ cyclePositions = << >>
    /\ idx = 1
    /\ last = Idle
    /\ guardStop = [s \in Symbols |-> NoPrice]
    /\ lastTarget = [s \in Symbols |-> NoPrice]
    /\ processed = {}
    /\ errors = {}
    /\ envSteps = MaxEnv - 1
    /\ fails = MaxFail
    /\ running = FALSE
    /\ check_task = "none"
    /\ check_interval = 30
    /\ ctl = NoCall
    /\ bt = NoBt
    /\ inv = NoInv
    /\ sweepFailed = {}

LifeNext ==
    \/ Start
    \/ Stop
    \/ CheckStopLossOrders
    \/ GetPosition
    \/ CleanupOrphanOrders
    \/ ProcessPosition
    \/ NoPositions
    \/ Sleep
    \/ OpenPosition
    \/ ClosePosition
    \/ MarkPriceMove
    \/ StrayOrder

LifeSpec == LifeInit /\ [][LifeNext]_vars

(* --------------------------- check interval ---------------------------- *)
\* arguments of the calls of POST /stop-loss-guard/interval
IntervalArgs == (0 - 5)..MaxArg

\* the route without the bounds of its Query parameter
interval_accepted_Unbounded(interval) == TRUE

\* set_stop_loss_guard_interval: interval: int = Query(..., ge=10, le=300);
\* a value outside the bounds is answered 422 before the handler runs
interval_accepted(interval) == interval >= 10 /\ interval <= 300

\* set_check_interval: the value it leaves in _check_interval
set_check_interval(interval) == Max(10, interval)

\* POST /stop-loss-guard/interval
SetCheckInterval ==
    /\ \E x \in IntervalArgs :
        IF interval_accepted(x)
        THEN /\ check_interval' = set_check_interval(x)
             /\ ctl' = [NoCall EXCEPT !.op = "interval", !.arg = x, !.status = 200]
        ELSE /\ check_interval' = check_interval
             /\ ctl' = [NoCall EXCEPT !.op = "interval", !.arg = x, !.status = 422]
    /\ UNCHANGED <<positions, orders, config, highest_prices, pc, cyclePositions, idx,
                   last, guardStop, lastTarget, processed, errors, envSteps, fails,
                   running, check_task, aside>>

IntervalSpec == Init /\ [][SetCheckInterval]_vars

(* ------------------------------ backtest ------------------------------- *)
\* Backtest of backtest.py, for one symbol.  bt holds positions[symbol]:
\* trailing is `"trailing_stop_percent" in position`, extreme is
\* highest_price (LONG) or lowest_price (SHORT).  observed is the price of the
\* last check, reached the highest stop_level the position had, closed_by the
\* reason of the last close.  The account figures (balance, trades,
\* drawdown) are written by these methods and read by none of them.
BtPrices == { 1000 * k : k \in (90..110) \ {96, 104} }
stop_loss_percent == 20             \* 2.0 %, in tenths of a percent

\* open_position: the entry written to positions[symbol]
bt_open_position(side, entry_price) ==
    [NoBt EXCEPT !.open = TRUE, !.side = side, !.entry_price = entry_price,
                 !.quantity = PositionQty,
                 !.stop_loss_price = LockPrice(side, entry_price, 0 - stop_loss_percent)]

\* the level chain that takes the position back to level 0 when the profit
\* is below the first threshold
bt_ladder_Resetting(p, current_price) ==
    LET profit == calculate_profit_percent(p.entry_price, current_price, p.side)
        entry == p.entry_price
        current_level == p.stop_level
    IN  IF profit >= 18 * entry /\ current_level < 1
        THEN [p EXCEPT !.stop_loss_price = LockPrice(p.side, entry, 1), !.stop_level = 1]
        ELSE IF profit >= 25 * entry /\ current_level < 2
        THEN [p EXCEPT !.stop_loss_price = LockPrice(p.side, entry, 19), !.stop_level = 2]
        ELSE IF profit >= 40 * entry /\ current_level < 3
        THEN IF ~p.is_partial_closed
             THEN [p EXCEPT !.quantity = p.quantity \div 2, !.is_partial_closed = TRUE,
                            !.stop_level = 3,
                            !.stop_loss_price = LockPrice(p.side, entry, 19),
                            !.trailing = TRUE, !.extreme = current_price]
             ELSE p
        ELSE IF profit < 18 * entry THEN [p EXCEPT !.stop_level = 0]
        ELSE p

\* the level chain whose third branch runs at every call at a profit of 4 %
\* or more, whatever the level and whether the partial close was done
bt_ladder_RepeatPartial(p, current_price) ==
    LET profit == calculate_profit_percent(p.entry_price, current_price, p.side)
        entry == p.entry_price
        current_level == p.stop_level
    IN  IF profit >= 18 * entry /\ current_level < 1
        THEN [p EXCEPT !.stop_loss_price = LockPrice(p.side, entry, 1), !.stop_level = 1]
        ELSE IF profit >= 25 * entry /\ current_level < 2
        THEN [p EXCEPT !.stop_loss_price = LockPrice(p.side, entry, 19), !.stop_level = 2]
        ELSE IF profit >= 40 * entry
        THEN [p EXCEPT !.quantity = p.quantity \div 2, !.is_partial_closed = TRUE,
                       !.stop_level = 3,
                       !.stop_loss_price = LockPrice(p.side, entry, 19),
                       !.trailing = TRUE, !.extreme = current_price]
        ELSE p

\* check_stop_loss: the if / elif chain of the levels 1 to 3
bt_ladder(p, current_price) ==
    LET profit == calculate_profit_percent(p.entry_price, current_price, p.side)
        entry == p.entry_price
        current_level == p.stop_level
    IN  IF profit >= 18 * entry /\ current_level < 1
        THEN [p EXCEPT !.stop_loss_price = LockPrice(p.side, entry, 1), !.stop_level = 1]
        ELSE IF profit >= 25 * entry /\ current_level < 2
        THEN [p EXCEPT !.stop_loss_price = LockPrice(p.side, entry, 19), !.stop_level = 2]
        ELSE IF profit >= 40 * entry /\ current_level < 3
        THEN IF ~p.is_partial_closed
             THEN [p EXCEPT !.quantity = p.quantity \div 2, !.is_partial_closed = TRUE,
                            !.stop_level = 3,
                            !.stop_loss_price = LockPrice(p.side, entry, 19),
                            !.trailing = TRUE, !.extreme = current_price]
             ELSE p
        ELSE p

\* check_stop_loss: the trailing stop after level 3
bt_trailing(p, current_price) ==
    IF ~(p.stop_level >= 3 /\ p.trailing) THEN p
    ELSE LET extreme == IF p.extreme = NoPrice THEN p.entry_price ELSE p.extreme
         IN  IF p.side = "LONG"
             THEN IF current_price > extreme
                  THEN LET new_stop == (current_price * (1000 - 15)) \div 1000
                       IN  [p EXCEPT !.extreme = current_price,
                                     !.stop_loss_price = Max(new_stop, p.stop_loss_price)]
                  ELSE p
             ELSE IF current_price < extreme
                  THEN LET new_stop == (current_price * (1000 + 15)) \div 1000
                       IN  [p EXCEPT !.extreme = current_price,
                                     !.stop_loss_price = Min(new_stop, p.stop_loss_price)]
                  ELSE p

\* check_stop_loss on an open position: the position it leaves
bt_check_stop_loss(p, current_price) ==
    IF \/ p.side = "LONG" /\ current_price <= p.stop_loss_price
       \/ p.side = "SHORT" /\ current_price >= p.stop_loss_price
    THEN [NoBt EXCEPT !.closed_by = "STOP_LOSS", !.observed = current_price]
    ELSE LET q == bt_trailing(bt_ladder(p, current_price), current_price)
         IN  [q EXCEPT !.observed = current_price,
                       !.reached = Max(p.reached, q.stop_level)]

\* the variables the backtest leaves alone
BtUnchanged ==
    UNCHANGED <<positions, orders, config, highest_prices, pc, cyclePositions, idx,
                last, guardStop, lastTarget, processed, errors, envSteps, fails,
                running, check_task, check_interval, ctl, inv, sweepFailed>>

\* Backtest.open_position; a symbol with a position is left alone
BtOpenPosition ==
    /\ \E side \in Sides :
          bt' = IF bt.open THEN bt ELSE bt_open_position(side, EntryPrice)
    /\ BtUnchanged

\* Backtest.check_stop_loss
BtCheckStopLoss ==
    /\ bt.open
    /\ \E current_price \in BtPrices : bt' = bt_check_stop_loss(bt, current_price)
    /\ BtUnchanged

\* Backtest.close_position on a signal
BtClosePosition ==
    /\ bt.open
    /\ bt' = [NoBt EXCEPT !.closed_by = "SIGNAL"]
    /\ BtUnchanged

BtNext == BtOpenPosition \/ BtCheckStopLoss \/ BtClosePosition

BtSpec == Init /\ [][BtNext]_vars

(* ----------------------- overlapping invocations ----------------------- *)
\* Two invocations of _process_position for the first symbol, each on the
\* position_data its caller fetched, taken one await at a time.  An order of
\* the book carries the id the exchange gave it: 0 for the order found at the
\* start, i for the order invocation i placed.  inv.calls[i] is the frame of
\* invocation i: pc the await it is suspended at; inv.best is the most
\* protective stop price an invocation has placed.
Invocations == {1, 2}
RaceSymbol == "A"

\* the frame of an invocation before its first await
Frame(side, mark) ==
    [pc |-> "fetch1",
     pd |-> [symbol |-> RaceSymbol, side |-> side, entry_price |-> EntryPrice,
             quantity |-> PositionQty, mark_price |-> mark],
     cur |-> NoPrice, stop_price |-> NoPrice, queue |-> << >>]

RaceInit ==
    /\ \E side \in Sides :
         /\ positions = [s \in Symbols |-> IF s = RaceSymbol THEN Opened(side) ELSE NoPos]
         /\ \E m1 \in MarkPrices(RaceSymbol, side) : \E m2 \in MarkPrices(RaceSymbol, side) :
                inv = [calls |-> <<Frame(side, m1), Frame(side, m2)>>, best |-> NoPrice]
    /\ \E book \in {<< >>} \cup
                     { << [sym |-> q.sym, typ |-> q.typ, side |-> q.side,
                           price |-> q.price, qty |-> q.qty, id |-> 0] >> :
                       q \in StrayOrders(RaceSymbol) } :
          orders = book
    /\ config = DEFAULT_TRAILING_CONFIG
    /\ highest_prices = [s \in Symbols |-> NoPrice]
    /\ pc = "off"
    /\ cyclePositions = << >>
    /\ idx = 1
    /\ last = Idle
    /\ guardStop = [s \in Symbols |-> NoPrice]
    /\ lastTarget = [s \in Symbols |-> NoPrice]
    /\ processed = {}
    /\ errors = {}
    /\ envSteps = MaxEnv
    /\ fails = MaxFail
    /\ running = TRUE
    /\ check_task = "active"
    /\ check_interval = 30
    /\ ctl = NoCall
    /\ bt = NoBt
    /\ sweepFailed = {}

\* the variables an invocation leaves alone, besides the book and the excursions
RaceUnchanged ==
    UNCHANGED <<positions, config, pc, cyclePositions, idx, last, guardStop, lastTarget,
                processed, errors, envSteps, fails, running, check_task,
                check_interval, ctl, bt, sweepFailed>>

\* invocation i moves to frame c
Resume(i, c) == inv' = [inv EXCEPT !.calls[i] = c]

\* get_open_orders of _process_position returns: the stop orders are read,
\* the evaluator runs, the branch is chosen
RaceFetch1(i) ==
    LET c == inv.calls[i]
        pd == c.pd
        stop_orders == SelectSeq(get_open_orders(orders, pd.symbol), IsStopOrder)
        existing_stop_orders_count == Len(stop_orders)
        current_stop_price == IF existing_stop_orders_count > 0
                              THEN stop_orders[1].price ELSE NoPrice
        highest == UpdatedHighest(highest_prices[pd.symbol], pd.side, pd.mark_price)
        new_stop_price == calculate_stop_loss_price(config, highest, pd.side, pd.entry_price,
                                                    pd.mark_price, current_stop_price)
    IN  /\ c.pc = "fetch1"
        /\ highest_prices' = [highest_prices EXCEPT ![pd.symbol] = highest]
        /\ IF existing_stop_orders_count > 0 /\ current_stop_price # NoPrice
           THEN Resume(i, [c EXCEPT !.cur = current_stop_price,
                                    !.stop_price = new_stop_price,
                                    !.pc = IF new_stop_price = NoPrice THEN "done"
                                           ELSE "precision1"])
           ELSE Resume(i, [c EXCEPT !.stop_price =
                                        IF new_stop_price = NoPrice
                                        THEN calculate_initial_stop_loss_price(pd.side,
                                                                               pd.entry_price)
                                        ELSE new_stop_price,
                                    !.pc = "precision2"])
        /\ UNCHANGED orders
        /\ RaceUnchanged

\* get_symbol_precision of _process_position returns: the target is compared
\* with the stop price read before
RacePrecision1(i) ==
    LET c == inv.calls[i]
        skip == \/ format_price(c.cur) = format_price(c.stop_price)
                \/ c.pd.side = "LONG" /\ c.stop_price <= c.cur
                \/ c.pd.side # "LONG" /\ c.stop_price >= c.cur
    IN  /\ c.pc = "precision1"
        /\ Resume(i, [c EXCEPT !.pc = IF skip THEN "done" ELSE "precision2"])
        /\ UNCHANGED <<orders, highest_prices>>
        /\ RaceUnchanged

\* get_symbol_precision of _adjust_stop_loss returns
RacePrecision2(i) ==
    LET c == inv.calls[i]
    IN  /\ c.pc = "precision2"
        /\ Resume(i, [c EXCEPT !.pc = "fetch2"])
        /\ UNCHANGED <<orders, highest_prices>>
        /\ RaceUnchanged

\* get_open_orders of _adjust_stop_loss returns: the orders to cancel
RaceFetch2(i) ==
    LET c == inv.calls[i]
        open_orders == get_open_orders(orders, c.pd.symbol)
        ids == [j \in 1..Len(open_orders) |-> open_orders[j].id]
    IN  /\ c.pc = "fetch2"
        /\ Resume(i, [c EXCEPT !.queue = ids,
                               !.pc = IF Len(ids) = 0 THEN "place" ELSE "cancel"])
        /\ UNCHANGED <<orders, highest_prices>>
        /\ RaceUnchanged

\* cancel_order returns: the order is off the book; the error of cancelling
\* an order that is no longer there is logged and the loop goes on
RaceCancel(i) ==
    LET c == inv.calls[i]
        rest == Tail(c.queue)
    IN  /\ c.pc = "cancel"
        /\ orders' = SelectSeq(orders, LAMBDA o : o.id # Head(c.queue))
        /\ Resume(i, [c EXCEPT !.queue = rest,
                               !.pc = IF Len(rest) = 0 THEN "place" ELSE "cancel"])
        /\ UNCHANGED highest_prices
        /\ RaceUnchanged

\* place_stop_loss_order returns
RacePlace(i) ==
    LET c == inv.calls[i]
        formatted_price == format_price(c.stop_price)
        stop_order == [sym |-> c.pd.symbol, typ |-> "STOP_MARKET",
                       side |-> IF c.pd.side = "LONG" THEN "SELL" ELSE "BUY",
                       price |-> formatted_price,
                       qty |-> format_quantity(c.pd.quantity), id |-> i]
    IN  /\ c.pc = "place"
        /\ orders' = Append(orders, stop_order)
        /\ inv' = [inv EXCEPT !.calls[i] = [c EXCEPT !.pc = "notify"],
                              !.best = IF inv.best = NoPrice
                                          \/ AsProtective(c.pd.side, formatted_price, inv.best)
                                       THEN formatted_price ELSE inv.best]
        /\ UNCHANGED highest_prices
        /\ RaceUnchanged

\* send_message returns
RaceNotify(i) ==
    LET c == inv.calls[i]
    IN  /\ c.pc = "notify"
        /\ Resume(i, [c EXCEPT !.pc = "done"])
        /\ UNCHANGED <<orders, highest_prices>>
        /\ RaceUnchanged

RaceNext ==
    \E i \in Invocations :
        \/ RaceFetch1(i)
        \/ RacePrecision1(i)
        \/ RacePrecision2(i)
        \/ RaceFetch2(i)
        \/ RaceCancel(i)
        \/ RacePlace(i)
        \/ RaceNotify(i)

RaceSpec == RaceInit /\ [][RaceNext]_vars

(* -------------------------- overlapping starts ------------------------- *)
\* Two calls of start() on a stopped guard, each suspended at the await of
\* load_config, and calls of stop().  A frame holds the position of a call
\* (pc), the ladder its load met (load), the loop task the call created
\* (task: "none", "running", "cancelled" by stop(), "ended" at the test of
\* `while self._running`) and whether _check_task refers to that task (held).
\* The cycles of a loop task are those of Spec and are left out here.
\* the calls of start() in flight
StartCalls == {1, 2}

StartFrame == [pc |-> "call", load |-> "none", task |-> "none", held |-> FALSE]

StartRaceInit ==
    /\ inv = [calls |-> [i \in StartCalls |-> StartFrame], best |-> NoPrice]
    /\ positions = [s \in Symbols |-> NoPos]
    /\ orders = << >>
    /\ config = DEFAULT_TRAILING_CONFIG
    /\ highest_prices = [s \in Symbols |-> NoPrice]
    /\ pc = "off"
    /\ cyclePositions = << >>
    /\ idx = 1
    /\ last = Idle
    /\ guardStop = [s \in Symbols |-> NoPrice]
    /\ lastTarget = [s \in Symbols |-> NoPrice]
    /\ processed = {}
    /\ errors = {}
    /\ envSteps = MaxEnv
    /\ fails = MaxFail
    /\ running = FALSE
    /\ check_task = "none"
    /\ check_interval = 30
    /\ ctl = NoCall
    /\ bt = NoBt
    /\ sweepFailed = {}

\* the variables the calls of start() and stop() leave alone
StartRaceUnchanged ==
    UNCHANGED <<positions, orders, highest_prices, pc, cyclePositions, idx, last,
                guardStop, lastTarget, processed, errors, envSteps, fails,
                check_interval, ctl, bt, sweepFailed>>

\* start(): `if self._running: return`, else up to the await of load_config
StartCall(i) ==
    /\ inv.calls[i].pc = "call"
    /\ inv' = [inv EXCEPT !.calls[i].pc = IF running THEN "done" ELSE "load"]
    /\ UNCHANGED <<config, running, check_task>>
    /\ StartRaceUnchanged

\* start(): load_config returns; _running is set and the loop task created,
\* and _check_task refers to it from now on
StartLoaded(i) ==
    /\ inv.calls[i].pc = "load"
    /\ \E outcome \in LoadOutcomes :
          /\ config' = load_config(outcome).config
          /\ inv' = [inv EXCEPT !.calls =
                        [j \in StartCalls |->
                            IF j = i
                            THEN [pc |-> "done", load |-> outcome,
                                  task |-> "running", held |-> TRUE]
                            ELSE [inv.calls[j] EXCEPT !.held = FALSE]]]
    /\ running' = TRUE
    /\ check_task' = "active"
    /\ StartRaceUnchanged

\* stop(): _running is lowered, the task _check_task refers to is cancelled
\* and awaited
StopCall ==
    /\ running' = FALSE
    /\ check_task' = IF task_after_stop(check_task) = "cancelled" THEN "done" ELSE check_task
    /\ inv' = [inv EXCEPT !.calls =
                  [j \in StartCalls |->
                      IF inv.calls[j].held /\ inv.calls[j].task = "running"
                      THEN [inv.calls[j] EXCEPT !.task = task_after_stop("active")]
                      ELSE inv.calls[j]]]
    /\ UNCHANGED config
    /\ StartRaceUnchanged

\* a loop task finds _running lowered at `while self._running` and ends
LoopExit(i) ==
    /\ inv.calls[i].task = "running"
    /\ ~running
    /\ inv' = [inv EXCEPT !.calls[i].task = "ended"]
    /\ UNCHANGED <<config, running, check_task>>
    /\ StartRaceUnchanged

StartRaceNext ==
    \/ \E i \in StartCalls : StartCall(i)
    \/ \E i \in StartCalls : StartLoaded(i)
    \/ StopCall
    \/ \E i \in StartCalls : LoopExit(i)

StartRaceSpec == StartRaceInit /\ [][StartRaceNext]_vars

(* ------------------------------ evaluator ------------------------------ *)
\* _calculate_stop_loss_price called on its own.  The prices are the entry,
\* a losing price, and for each level a price inside it and the price at its
\* lower edge where the float profit of _calculate_profit_percent is exact
\* (2.5 and 4.0; at 1.8 it is not).
EvalSymbol == "A"
EvalPrices(side) ==
    IF side = "LONG"
    THEN {99000, 100000, 101000, 102000, 102500, 103000, 104000, 105000, 110000}
    ELSE {101000, 100000, 99000, 98000, 97500, 97000, 96000, 95000, 90000}

\* current_stop_price: None, the initial stop, the floors of the default
\* ladder and a trailing stop
EvalStops(side) ==
    IF side = "LONG" THEN {NoPrice, 98000, 100100, 101900, 103425}
                     ELSE {NoPrice, 102000, 99900, 98100, 96425}

\* a stored ladder whose level 3 locks 3 %: its floor lies above the trailing
\* stop of a position just inside level 3
DeepLockConfig == [DEFAULT_TRAILING_CONFIG EXCEPT !.level_3.lock_profit = 30]

\* a stored ladder whose level 3 does not trail
NoTrailingConfig == [DEFAULT_TRAILING_CONFIG EXCEPT !.level_3.trailing_enabled = FALSE]

Ladders == {DEFAULT_TRAILING_CONFIG, StoredConfig, DeepLockConfig, NoTrailingConfig}

\* a guard that holds one of the ladders and no excursion, and an open
\* position the evaluator has not been called on
EvalInit ==
    /\ \E side \in Sides :
          positions = [s \in Symbols |-> IF s = EvalSymbol THEN Opened(side) ELSE NoPos]
    /\ \E cfg \in Ladders : config = cfg
    /\ orders = << >>
    /\ highest_prices = [s \in Symbols |-> NoPrice]
    /\ pc = "off"
    /\ cyclePositions = << >>
    /\ idx = 1
    /\ last = Idle
    /\ guardStop = [s \in Symbols |-> NoPrice]
    /\ lastTarget = [s \in Symbols |-> NoPrice]
    /\ processed = {}
    /\ errors = {}
    /\ envSteps = MaxEnv
    /\ fails = MaxFail
    /\ running = FALSE
    /\ check_task = "none"
    /\ check_interval = 30
    /\ ctl = NoCall
    /\ bt = NoBt
    /\ inv = NoInv
    /\ sweepFailed = {}

\* the variables an evaluator call leaves alone, besides the excursions
EvalUnchanged ==
    UNCHANGED <<orders, config, pc, cyclePositions, idx, guardStop, processed, errors,
                envSteps, fails, running, check_task, check_interval, ctl, bt, inv,
                sweepFailed>>

\* _calculate_stop_loss_price(parsed_pos, current_price, current_stop_price)
Evaluate ==
    /\ LET pos == positions[EvalSymbol]
       IN  \E current_price \in EvalPrices(pos.side) :
           \E current_stop_price \in EvalStops(pos.side) :
              LET highest == UpdatedHighest(highest_prices[EvalSymbol], pos.side, current_price)
                  new_stop_price ==
                      calculate_stop_loss_price(config, highest, pos.side, pos.entry,
                                                current_price, current_stop_price)
              IN  /\ highest_prices' = [highest_prices EXCEPT ![EvalSymbol] = highest]
                  /\ positions' = [positions EXCEPT ![EvalSymbol].mark = current_price]
                  /\ last' = [Idle EXCEPT !.op = "evaluate", !.sym = EvalSymbol,
                                          !.side = pos.side, !.mark = current_price,
                                          !.evaluated = TRUE,
                                          !.cur = current_stop_price,
                                          !.target = new_stop_price,
                                          !.prevTarget = lastTarget[EvalSymbol],
                                          !.prevHighest = highest_prices[EvalSymbol]]
                  /\ lastTarget' = IF new_stop_price # NoPrice
                                   THEN [lastTarget EXCEPT ![EvalSymbol] = new_stop_price]
                                   ELSE lastTarget
    /\ EvalUnchanged

\* the position is closed and another one is opened on the symbol; the
\* excursion is gone when a cycle without position ran in between, and is
\* still there otherwise
EvalReopen ==
    /\ last.op = "evaluate"
    /\ \E side \in Sides :
          positions' = [positions EXCEPT ![EvalSymbol] = Opened(side)]
    /\ \E cleared \in BOOLEAN :
          highest_prices' = IF cleared THEN cleared_highest_prices ELSE highest_prices
    /\ lastTarget' = [lastTarget EXCEPT ![EvalSymbol] = NoPrice]
    /\ last' = Idle
    /\ EvalUnchanged

EvalNext == Evaluate \/ EvalReopen

EvalSpec == EvalInit /\ [][EvalNext]_vars

(* ------------------------------- claims -------------------------------- *)
ProcessRan == last.op = "process"
FetchedOrders == "fetch1" \in last.calls \ last.failed
IssuedCommand == last.cancelTried # {} \/ last.placeTried
\* the book entries of the processed symbol that were stop orders before the pass
StopsBefore == IndicesOf(last.before, LAMBDA o : o.sym = last.sym /\ IsStopOrder(o))
HasStop(s) == \E i \in 1..Len(orders) : orders[i].sym = s /\ IsStopOrder(orders[i])

\* C1: a stop the guard places is at least as protective as every stop order
\* it cancelled for it and as the last stop the guard placed for the position.
C1_Ratchet ==
    (ProcessRan /\ last.placed # NoPrice) =>
        /\ \A i \in (last.cancelTried \ last.cancelFailed) \cap StopsBefore :
               AsProtective(last.side, last.placed, last.before[i].price)
        /\ last.prevGuard # NoPrice => AsProtective(last.side, last.placed, last.prevGuard)

\* C2: when a found stop order is being replaced and a cancel, or the fetch
\* of the orders to cancel, fails, no place command is issued and the pass
\* ends in error.
C2_ReplaceOrdering ==
    (ProcessRan /\ last.nStops > 0 /\ (last.cancelFailed # {} \/ "fetch2" \in last.failed)) =>
        (~last.placeTried /\ last.raised)

\* C3: a target the evaluator returns for a position is never weaker than the
\* target it returned before for that position.
C3_EvaluatorMonotone ==
    (ProcessRan /\ last.evaluated /\ last.target # NoPrice /\ last.prevTarget # NoPrice) =>
        AsProtective(last.side, last.target, last.prevTarget)

\* C4: a pass over a position whose symbol has exactly one stop order on the
\* book, priced at the formatted target of the position, issues no cancel and
\* no place.
C4_Idempotence ==
    (ProcessRan /\ last.evaluated /\ Cardinality(StopsBefore) = 1
        /\ \A i \in StopsBefore : last.before[i].price = format_price(last.fresh)) =>
        ~IssuedCommand

\* C5: the sweep issues a cancel only for stop orders whose symbol has no
\* open position, and, having fetched the book, for every such order.
C5_OrphanExclusivity ==
    last.op \in {"sweep", "nopos"} =>
        \A i \in 1..Len(last.before) :
            LET orphan == IsStopOrder(last.before[i]) /\ positions[last.before[i].sym] = NoPos
            IN  /\ i \in last.cancelTried => orphan
                /\ (orphan /\ "fetch1" \notin last.failed) => i \in last.cancelTried

\* a sweep that cancels an orphan and leaves the stop order of an open position
C5_Witness ==
    /\ last.op = "sweep" /\ last.cancelTried # {}
    /\ \E i \in 1..Len(last.before) :
           /\ IsStopOrder(last.before[i]) /\ positions[last.before[i].sym] # NoPos
           /\ i \notin last.cancelTried
    /\ \E i \in 1..Len(last.before) :
           ~IsStopOrder(last.before[i]) /\ i \notin last.cancelTried

\* C6: a pass that finds more than one stop order for the symbol cancels every
\* one of them and places one new stop order.
C6_MultipleStopsReplaced ==
    (ProcessRan /\ last.nStops > 1) =>
        (StopsBefore \subseteq last.cancelTried /\ last.placeTried)

\* C7: a place that fails is logged as an error of the pass, and after a
\* failed place has left an open position without stop order, every open
\* position has a stop order again at some later point.
PlaceFailed(s) ==
    /\ ProcessRan /\ last.sym = s /\ last.placeTried /\ last.placed = NoPrice
    /\ positions[s] # NoPos /\ ~HasStop(s)
AllProtected == \A s \in Symbols : positions[s] # NoPos => HasStop(s)
C7_PartialReplaceRecovery ==
    /\ [](\A s \in Symbols : PlaceFailed(s) => last.raised)
    /\ (\E s \in Symbols : PlaceFailed(s)) ~> AllProtected

\* a replace whose cancel succeeded and whose place failed
C7_Witness ==
    /\ ProcessRan /\ last.nStops > 0 /\ last.cancelTried # {} /\ last.cancelFailed = {}
    /\ PlaceFailed(last.sym) /\ last.raised

\* C8: a pass whose fetch of the symbol's orders fails issues no cancel and
\* no place.
C8_FetchFailureAborts ==
    (ProcessRan /\ "fetch1" \in last.failed) => ~IssuedCommand

\* C9: when a cycle ends, no symbol without open position has an excursion.
C9_ExcursionCleared ==
    (pc = "sleep" /\ last.op \in {"process", "nopos"}) =>
        \A s \in Symbols : positions[s] = NoPos => highest_prices[s] = NoPrice

\* C10: a cycle that starts processing positions ends only after every
\* position of the cycle was processed, whichever passes raised.
C10_FailureIsolation ==
    /\ pc = "process" => processed = { cyclePositions[i].symbol : i \in 1..(idx - 1) }
    /\ (pc = "sleep" /\ ProcessRan) => processed = PositionSymbols(cyclePositions)

\* the pass of the first position raised and the second position was processed
C10_Witness ==
    /\ pc = "sleep" /\ ProcessRan /\ Len(cyclePositions) = 2
    /\ cyclePositions[1].symbol \in errors
    /\ last.sym = cyclePositions[2].symbol

\* C11: once start has returned the guard is running, with a loaded ladder
\* and an active loop task; once stop has returned, and until start is called
\* again, the loop task has ended and no handler of the loop runs.
GuardOps == {"get_position", "sweep", "process", "nopos"}
C11_Lifecycle ==
    /\ ctl.op = "start" =>
           /\ running /\ check_task = "active" /\ pc # "off"
           /\ ~ctl.was => ctl.load \in LoadOutcomes /\ config = load_config(ctl.load).config
    /\ ~running => (check_task # "active" /\ pc = "off" /\ last.op \notin GuardOps)

\* stop has returned on a guard whose loop had placed a stop order, and the
\* exchange has changed since
C11_Witness ==
    /\ ctl.op = "stop" /\ ctl.was /\ ~running /\ check_task = "done"
    /\ guardStop["A"] # NoPrice /\ envSteps = MaxEnv

\* C12: the check interval of the guard lies within [10, 300] seconds.
C12_IntervalBounded == check_interval >= 10 /\ check_interval <= 300

\* a call above the upper bound made after a call at the upper bound
C12_Witness ==
    ctl.op = "interval" /\ ctl.arg > 300 /\ ctl.status = 422 /\ check_interval = 300

\* C13: a reconcile-now call is answered with one result for each symbol
\* with an open position.
C13_ReconcileNow ==
    ctl.op = "check" =>
        (ctl.status = 200 /\ ctl.results = { s \in Symbols : positions[s] # NoPos })

\* C14: a pass over a position whose symbol has no stop order on the book,
\* and whose calls before the place succeed, issues a place: at the target of
\* the evaluator when it returns one, at the initial stop otherwise.
C14_CreateWhenNoStop ==
    (ProcessRan /\ last.evaluated /\ StopsBefore = {} /\ "precision2" \notin last.failed) =>
        /\ last.placeTried
        /\ "place" \notin last.failed =>
               last.placed = format_price(
                   IF last.target # NoPrice THEN last.target
                   ELSE calculate_initial_stop_loss_price(last.side, EntryPrice))

\* a first stop order placed at a target of the ladder
C14_Witness ==
    /\ ProcessRan /\ StopsBefore = {} /\ last.failed = {}
    /\ last.target # NoPrice /\ last.placed = format_price(last.target)
    /\ last.placed # format_price(calculate_initial_stop_loss_price(last.side, EntryPrice))

\* C15: a pass that finds exactly one stop order for the symbol, and none of
\* whose calls fails, cancels it and places a new one when the side of the
\* order is not the closing side of the position, or its quantity is more
\* than 1 % off the quantity of the position, or its formatted price is not
\* the formatted target.
C15_ReplaceOnMismatch ==
    (ProcessRan /\ FetchedOrders /\ last.nStops = 1
        /\ last.failed = {} /\ last.cancelFailed = {}) =>
        \A i \in StopsBefore :
            LET o == last.before[i]
                closing == IF last.side = "LONG" THEN "SELL" ELSE "BUY"
                off == IF o.qty >= PositionQty THEN o.qty - PositionQty
                       ELSE PositionQty - o.qty
                mismatch ==
                    \/ o.side # closing
                    \/ off * 100 > PositionQty
                    \/ last.target # NoPrice /\ format_price(o.price) # format_price(last.target)
            IN  mismatch => (i \in last.cancelTried /\ last.placeTried)

\* C16: a start whose configuration load finds no stored ladder, finds an
\* unparsable one, or meets an exception, leaves the guard running on the
\* default ladder.
C16_LoadFallback ==
    (ctl.op = "start" /\ ~ctl.was /\ ctl.load \in {"missing", "unparsable", "raises"}) =>
        (running /\ check_task = "active" /\ pc # "off" /\ config = DEFAULT_TRAILING_CONFIG)

\* after a start whose load met an exception, a pass computed the level 1
\* target of the default ladder
C16_Witness ==
    /\ ctl.op = "start" /\ ctl.load = "raises" /\ running
    /\ ProcessRan /\ last.target = LockPrice("LONG", EntryPrice, 1)
    /\ last.target # LockPrice("LONG", EntryPrice, StoredConfig.level_1.lock_profit)

\* C17: the ladder level of an open position is the highest level the
\* position has had since it was opened: it never decreases, and it is 0 only
\* while the position has reached no level.
C17_LevelMonotone ==
    bt.open => (bt.stop_level = bt.reached /\ bt.stop_level \in 0..3)

\* a position at level 2 observed at a profit below the threshold of level 2
C17_Witness ==
    /\ bt.open /\ bt.side = "LONG" /\ bt.stop_level = 2
    /\ bt.observed = 102000
    /\ calculate_profit_percent(bt.entry_price, bt.observed, bt.side) < 25 * bt.entry_price

\* C18: a pass whose notification fails ends without error, and the book it
\* leaves is the book before it, less the orders it cancelled, plus the one
\* stop order it placed.
C18_NotificationFailure ==
    (ProcessRan /\ "notify" \in last.failed) =>
        /\ ~last.raised /\ last.sym \notin errors
        /\ last.placed # NoPrice
        /\ orders = Append(RemoveIndices(last.before, last.cancelTried \ last.cancelFailed),
                           [sym |-> last.sym, typ |-> "STOP_MARKET",
                            side |-> IF last.side = "LONG" THEN "SELL" ELSE "BUY",
                            price |-> last.placed, qty |-> PositionQty])

\* a replace of a found stop order whose notification failed
C18_Witness ==
    /\ ProcessRan /\ "notify" \in last.failed /\ last.nStops = 1
    /\ last.cancelTried # {} /\ last.placed # NoPrice /\ ~last.raised

\* C20: a pass the stop of the guard ends after it issued the cancel of a
\* found stop order has issued its place as well.
C20_NoHalfReplace ==
    (last.op = "interrupted" /\ last.cancelTried \cap StopsBefore # {}) => last.placeTried

\* C19: when both overlapping invocations have ended, the book holds a stop
\* order of the symbol at least as protective as every stop an invocation
\* placed.
C19_OverlapRatchet ==
    ((\A i \in Invocations : inv.calls[i].pc = "done") /\ inv.best # NoPrice) =>
        \E j \in 1..Len(orders) :
            /\ orders[j].sym = RaceSymbol /\ IsStopOrder(orders[j])
            /\ AsProtective(positions[RaceSymbol].side, orders[j].price, inv.best)

\* the floor of ladder level n: entry_price moved by the lock_profit of the level
LevelFloor(cfg, side, entry_price, n) ==
    LockPrice(side, entry_price,
              IF n = 1 THEN cfg.level_1.lock_profit
              ELSE IF n = 2 THEN cfg.level_2.lock_profit
              ELSE cfg.level_3.lock_profit)

\* C21: a target the evaluator returns for a position is never weaker than
\* the floor of a level the position has reached.  The target returned before
\* shows the level reached: a target at or beyond the floor of level n is
\* returned from level n on only.
C21_NoDeescalation ==
    (ProcessRan /\ last.evaluated /\ last.target # NoPrice /\ last.prevTarget # NoPrice) =>
        \A n \in 1..3 :
            LET floor == LevelFloor(config, last.side, EntryPrice, n)
            IN  AsProtective(last.side, last.prevTarget, floor) =>
                    AsProtective(last.side, last.target, floor)

\* a is strictly more protective than b
MoreProtective(side, a, b) == IF side = "LONG" THEN a > b ELSE a < b

\* C22: an evaluator call that is given a current stop price returns a target
\* only when the target is strictly more protective than that price.
C22_NoneUnlessTighter ==
    (ProcessRan /\ last.evaluated /\ last.cur # NoPrice /\ last.target # NoPrice) =>
        MoreProtective(last.side, last.target, last.cur)

\* C23: a pass issues cancels only for stop orders of the symbol it processes.
C23_CancelsStopsOnly ==
    ProcessRan =>
        \A i \in last.cancelTried :
            last.before[i].sym = last.sym /\ IsStopOrder(last.before[i])

\* C24: a get_position that raises sends the loop to the sleep of its except
\* clause, and after every handler run in which a call failed the loop
\* starts another cycle.
FailedRun == last.raised \/ last.failed # {} \/ last.cancelFailed # {}
CycleBegins == pc = "fetch" /\ running /\ check_task = "active"
C24_LoopSurvives ==
    /\ []((last.op = "get_position" /\ last.raised) => pc = "sleep")
    /\ FailedRun ~> CycleBegins

\* positions were fetched in a cycle that follows a failed run
C24_Witness ==
    last.op = "get_position" /\ ~last.raised /\ fails > 0 /\ pc \in {"sweep", "nopos"}

\* C25: the no-position branch leaves no excursion, and, having fetched the
\* book, issues a cancel for every stop order of the book; the orders whose
\* cancel succeeds leave the book whichever cancels fail.
C25_NoPositionSweep ==
    last.op = "nopos" =>
        /\ \A s \in Symbols : highest_prices[s] = NoPrice
        /\ "fetch1" \notin last.failed =>
               last.cancelTried = { i \in 1..Len(last.before) : IsStopOrder(last.before[i]) }
        /\ orders = RemoveIndices(last.before, last.cancelTried \ last.cancelFailed)

\* a no-position branch that found the stop order the guard had placed and
\* a second stop order, and whose first cancel failed
C25_Witness ==
    /\ last.op = "nopos" /\ Len(last.before) = 2
    /\ last.cancelTried = {1, 2} /\ last.cancelFailed = {1}
    /\ last.before[1].price = calculate_initial_stop_loss_price("LONG", EntryPrice)
    /\ Len(orders) = 1

\* the book entries of the sweep that ran last that were orphans: stop orders
\* of a symbol without position in the cycle
OrphansBefore ==
    { i \in 1..Len(last.before) :
        /\ IsStopOrder(last.before[i])
        /\ last.before[i].sym \notin PositionSymbols(cyclePositions) }

\* C26: a sweep that fetched the book issues a cancel for every orphan,
\* whichever cancels fail and whichever failed in the sweep before; the
\* orphans whose cancel fails stay on the book, and the cycle goes on to
\* process its positions.
C26_OrphanCancelFailure ==
    (last.op = "sweep" /\ "fetch1" \notin last.failed) =>
        /\ last.cancelTried = OrphansBefore
        /\ \A i \in OrphansBefore : last.before[i] \in last.prevFailed => i \in last.cancelTried
        /\ orders = RemoveIndices(last.before, last.cancelTried \ last.cancelFailed)
        /\ sweepFailed = { last.before[i] : i \in last.cancelFailed }
        /\ pc = "process" /\ idx = 1 /\ ~last.raised

\* the sweep of a cycle cancels an orphan whose cancel failed in the sweep of
\* the cycle before, after that cycle processed its position
C26_Witness ==
    /\ last.op = "sweep" /\ last.prevFailed # {}
    /\ \E i \in last.cancelTried \ last.cancelFailed : last.before[i] \in last.prevFailed
    /\ \E s \in Symbols : guardStop[s] # NoPrice

\* C27: an evaluator call leaves as excursion of the symbol the current price
\* when there was none, and otherwise the higher of the excursion before and
\* the current price for LONG, the lower of the two for SHORT, whatever
\* level the profit is in; the excursion is then no less favorable than the
\* current price.
C27_ExcursionUpdate ==
    last.evaluated =>
        /\ highest_prices[last.sym] =
              IF last.prevHighest = NoPrice THEN last.mark
              ELSE IF last.side = "LONG" THEN Max(last.prevHighest, last.mark)
                                         ELSE Min(last.prevHighest, last.mark)
        /\ AsProtective(last.side, highest_prices[last.sym], last.mark)

\* a call on a LONG position at the entry price, below level 1, after the
\* price had been at 105
C27_Witness ==
    /\ last.op = "evaluate" /\ last.side = "LONG" /\ last.mark = EntryPrice
    /\ last.prevHighest = 105000 /\ highest_prices[EvalSymbol] = 105000
    /\ last.target = NoPrice

\* the profit of the evaluated position at the call that ran last, in tenths
\* of a percent: (current - entry) * 1000 / entry, sign per side
ProfitTenths ==
    IF last.side = "LONG" THEN ((last.mark - EntryPrice) * 1000) \div EntryPrice
                          ELSE ((EntryPrice - last.mark) * 1000) \div EntryPrice

\* the result of a call whose computed target is t: t itself, or None when a
\* current stop price is given that t does not improve on
Returned(t) ==
    IF last.cur = NoPrice \/ MoreProtective(last.side, t, last.cur) THEN t ELSE NoPrice

\* excursion moved back by trailing_percent, entry moved by lock_profit
TrailingTarget ==
    IF last.side = "LONG"
    THEN (highest_prices[last.sym] * (1000 - config.level_3.trailing_percent)) \div 1000
    ELSE (highest_prices[last.sym] * (1000 + config.level_3.trailing_percent)) \div 1000
Level3Floor ==
    IF last.side = "LONG"
    THEN (EntryPrice * (1000 + config.level_3.lock_profit)) \div 1000
    ELSE (EntryPrice * (1000 - config.level_3.lock_profit)) \div 1000

\* C28: at a profit at or above profit_min of level 3, with trailing enabled,
\* the computed target is the higher of trailing target and level 3 floor for
\* LONG, the lower of the two for SHORT.
C28_Level3Target ==
    (last.op = "evaluate" /\ config.level_3.trailing_enabled
        /\ ProfitTenths >= config.level_3.profit_min) =>
        last.target = Returned(IF last.side = "LONG" THEN Max(TrailingTarget, Level3Floor)
                                                     ELSE Min(TrailingTarget, Level3Floor))

\* Scenario B: SHORT, entry 100, price 95, excursion 95: the trailing target
\* 96.425 is lower than the floor 98.1
C28_Witness ==
    /\ last.op = "evaluate" /\ last.side = "SHORT" /\ config = DEFAULT_TRAILING_CONFIG
    /\ last.mark = 95000 /\ highest_prices[EvalSymbol] = 95000
    /\ Level3Floor = 98100 /\ last.target = 96425

\* entry moved by pct tenths of a percent, towards profit
Locked(pct) ==
    IF last.side = "LONG" THEN (EntryPrice * (1000 + pct)) \div 1000
                          ELSE (EntryPrice * (1000 - pct)) \div 1000

C30_ScenarioA ==
    (last.op = "evaluate" /\ config = DEFAULT_TRAILING_CONFIG /\ last.side = "LONG"
        /\ positions[EvalSymbol].entry = 100000) =>
        /\ last.mark = 102000 => last.target = 100100
        /\ (last.mark = 105000 /\ last.prevHighest = 102000 /\ last.prevTarget = 100100
               /\ last.cur \in {NoPrice, 100100}) =>
               (highest_prices[EvalSymbol] = 105000 /\ last.target = 103425)

\* the evaluation at 105 that follows the evaluation at 102, given the stop
\* at 100.1
C30_Witness ==
    /\ last.op = "evaluate" /\ config = DEFAULT_TRAILING_CONFIG /\ last.side = "LONG"
    /\ last.mark = 105000 /\ last.prevHighest = 102000 /\ last.prevTarget = 100100
    /\ last.cur = 100100
    /\ highest_prices[EvalSymbol] = 105000 /\ last.target = 103425 /\ Level3Floor = 101900

\* C31: the sweep of a cycle follows its get_position and precedes every
\* pass; the first pass follows the sweep and every other pass follows the
\* pass of the position before it in the list, which has then ended.
C31_CycleOrdering ==
    [][ /\ last'.op = "sweep" =>
              /\ last.op = "get_position" /\ processed = {}
              /\ pc' = "process" /\ idx' = 1 /\ processed' = {}
        /\ last'.op = "process" =>
              /\ pc = "process"
              /\ last.op = (IF idx = 1 THEN "sweep" ELSE "process")
              /\ processed = { cyclePositions[i].symbol : i \in 1..(idx - 1) }
              /\ last'.sym = cyclePositions[idx].symbol
              /\ processed' = processed \cup {last'.sym}
              /\ idx' = idx + 1
      ]_vars

\* the pass of the second position of a cycle finds on the book the stop
\* order the guard placed for the first position
C31_Witness ==
    /\ ProcessRan /\ idx = 3 /\ Len(cyclePositions) = 2
    /\ last.sym = cyclePositions[2].symbol /\ last.placeTried
    /\ \E i \in 1..Len(last.before) :
          /\ last.before[i].sym = cyclePositions[1].symbol
          /\ last.before[i].price # 99000

\* C32: the stop a pass places for a position whose symbol has no stop order
\* is the target of the evaluator when it returned one, and otherwise the
\* fallback: 2 % below the entry for LONG, 2 % above it for SHORT.
C32_StopSourcePrecedence ==
    (ProcessRan /\ last.evaluated /\ StopsBefore = {} /\ last.placed # NoPrice) =>
        IF last.target # NoPrice
        THEN last.placed = format_price(last.target)
        ELSE /\ last.placed = format_price(IF last.side = "LONG"
                                           THEN (EntryPrice * 98) \div 100
                                           ELSE (EntryPrice * 102) \div 100)
             /\ IF last.side = "LONG" THEN last.placed < EntryPrice
                                      ELSE last.placed > EntryPrice

\* the fallback placed for a SHORT position at its entry price, 2 % above it
C32_Witness ==
    /\ ProcessRan /\ last.side = "SHORT" /\ StopsBefore = {} /\ last.mark = EntryPrice
    /\ last.target = NoPrice /\ last.placed = 102000

\* C33: at most one loop task of the guard is running.
C33_SingleLoopTask ==
    Cardinality({ i \in StartCalls : inv.calls[i].task = "running" }) <= 1

\* C34: a pass over a position is the only pass over its symbol in the cycle
\* and places at most one order; the order it places is a stop order of the
\* symbol on the side that closes the position (SELL for LONG, BUY for
\* SHORT), for the quantity of the position, and besides it the pass adds
\* nothing to the book.
C34_PlacedStopCloses ==
    ProcessRan =>
        /\ Cardinality(processed) = idx - 1
        /\ last.sym = cyclePositions[idx - 1].symbol
        /\ \E kept \in {RemoveIndices(last.before, last.cancelTried \ last.cancelFailed)} :
              IF last.placed = NoPrice
              THEN orders = kept
              ELSE /\ Len(orders) = Len(kept) + 1
                   /\ SubSeq(orders, 1, Len(kept)) = kept
                   /\ \E placed \in {orders[Len(orders)]} :
                         /\ placed.sym = last.sym
                         /\ placed.typ = "STOP_MARKET"
                         /\ placed.side = (IF positions[last.sym].side = "LONG"
                                           THEN "SELL" ELSE "BUY")
                         /\ placed.qty = positions[last.sym].qty
                         /\ placed.price = last.placed

\* the first pass of a cycle over two positions replaces the stop of a SHORT
\* position with a BUY stop for its quantity
C34_Witness ==
    /\ ProcessRan /\ idx = 2 /\ Len(cyclePositions) = 2
    /\ positions[last.sym].side = "SHORT"
    /\ last.cancelTried # {} /\ last.placed # NoPrice
    /\ orders[Len(orders)].side = "BUY"
    /\ orders[Len(orders)].qty = PositionQty

\* C35: a call of check_stop_loss that leaves the backtest position open does
\* not loosen its stop price, leaves its stop level where it was or one
\* higher, and halves its quantity only when it does the partial close, which
\* it does only on a position that has not had one.
C35_BacktestRatchet ==
    [][ (bt.open /\ bt'.open) =>
            /\ bt'.side = bt.side /\ bt'.entry_price = bt.entry_price
            /\ AsProtective(bt.side, bt'.stop_loss_price, bt.stop_loss_price)
            /\ bt'.stop_level \in {bt.stop_level, bt.stop_level + 1}
            /\ bt.is_partial_closed => bt'.is_partial_closed
            /\ IF bt'.is_partial_closed /\ ~bt.is_partial_closed
               THEN bt'.quantity * 2 = bt.quantity
               ELSE bt'.quantity = bt.quantity
      ]_vars

\* a partially closed LONG position whose trailing stop has moved above the
\* lock of level 3, observed at a profit of 4 % or more below its highest price
C35_Witness ==
    /\ bt.open /\ bt.side = "LONG" /\ bt.stop_level = 3 /\ bt.is_partial_closed
    /\ bt.quantity * 2 = PositionQty
    /\ bt.stop_loss_price > LockPrice(bt.side, bt.entry_price, 19)
    /\ bt.observed < bt.extreme
    /\ calculate_profit_percent(bt.entry_price, bt.observed, bt.side) >= 40 * bt.entry_price

====
